---- MODULE Spec2Model ----
(***************************************************************************)
(* Bus Booking System (src/BusBookingSystem.cpp).                          *)
(*                                                                         *)
(* The program is a single-threaded menu loop over one global vector of    *)
(* Bus objects.  Each menu case is one atomic step: it reads its inputs    *)
(* from std::cin, possibly mutates busList, and prints a result.           *)
(*                                                                         *)
(* Input is modelled as what the extraction yields: a std::getline line is *)
(* a string, `std::cin >> int` is a record [ok, val] (ok = FALSE when the  *)
(* extraction fails), and the confirmation line is a sequence of           *)
(* characters of which `std::cin >> char` takes the first.  The input      *)
(* stream is assumed to always deliver the token a prompt waits for (an    *)
(* interactive terminal); end of input is outside the model.               *)
(***************************************************************************)
EXTENDS Integers, Sequences, FiniteSets, TLC

VARIABLES
    busList,    \* std::vector<Bus> busList
    prev,       \* busList as it was before the last menu operation
    last,       \* the last menu operation: inputs consumed, result, output
    trip        \* set when a release directly follows a successful reserve

vars == <<busList, prev, last, trip>>

(***************************************************************************)
(* Bounds and program constants                                            *)
(***************************************************************************)
MaxBuses == 2

Rows == 8
Cols == 4
NumSeats == 32
DefaultFare == 300
SeatCtorFare == 0

\* Lines typed at the prompts.
BusNumbers   == {"B1", "B2"}
DriverNames  == {"Ravi"}
ArrivalTimes == {"09:00"}
DepartTimes  == {"17:00"}
Origins      == {"Delhi", "delhi"}
Dests        == {"Agra"}
CancelLines  == {"", "0"}
Passengers   == {"Alice", "Empty"}
SearchDests  == {"Agra", "Pune"}

\* Results of `std::cin >> seatNumber`.
BadInt     == [ok |-> FALSE, val |-> 0]
SeatTokens == {BadInt} \cup {[ok |-> TRUE, val |-> n] : n \in {-1, 0, 5, 32, 33}}

\* Answers typed at the (y/n) prompt, as character sequences.
ConfirmLines == {<<"y">>, <<"Y">>, <<"n">>, <<"y", "e", "s">>}

(***************************************************************************)
(* struct Seat, class Bus                                                  *)
(***************************************************************************)
Seat == [passengerName |-> "Empty", fare |-> SeatCtorFare]

\* A Bus built without the constructor's fare loop: fares stay as Seat() set them.
Bus_fareUnset ==
    [busNumber |-> "", driverName |-> "", arrivalTime |-> "",
     departureTime |-> "", from |-> "", to |-> "",
     seats |-> [i \in 0..(Rows - 1) |-> [j \in 0..(Cols - 1) |-> Seat]]]

Bus ==
    [busNumber |-> "", driverName |-> "", arrivalTime |-> "",
     departureTime |-> "", from |-> "", to |-> "",
     seats |-> [i \in 0..(Rows - 1) |->
                  [j \in 0..(Cols - 1) |-> [Seat EXCEPT !.fare = DefaultFare]]]]

getBusNumber(b) == b.busNumber

IsCancel(line) == line = "0" \/ line = ""

(***************************************************************************)
(* Bus::install.  in is the sequence of lines the prompts consumed: the    *)
(* function returns at the first cancelling line, so Len(in) is 6 or the   *)
(* position of that line.                                                  *)
(***************************************************************************)
\* install with the busNumber.clear() of the destination branch left out.
install_keepsNumber(bus, in) ==
    LET k == Len(in)
        cancelled == IsCancel(in[k])
        set(b, f, p) == IF p < k \/ (p = 6 /\ ~cancelled)
                        THEN [b EXCEPT ![f] = in[p]]
                        ELSE IF p = k THEN [b EXCEPT ![f] = in[p]] ELSE b
        filled == set(set(set(set(set(set(bus, "busNumber", 1),
                      "driverName", 2), "arrivalTime", 3),
                      "departureTime", 4), "from", 5), "to", 6)
    IN  IF ~cancelled THEN filled
        ELSE IF k = 6
        THEN [filled EXCEPT !.driverName = "", !.arrivalTime = "",
                            !.departureTime = "", !.from = ""]
        ELSE [filled EXCEPT !.busNumber = ""]

\* install whose arrival-time branch clears driverName but not busNumber.
install_arrivalSlip(bus, in) ==
    LET k == Len(in)
        name(p) == <<"busNumber", "driverName", "arrivalTime",
                     "departureTime", "from", "to">>[p]
        value(p) == IF p > k THEN ""
                    ELSE IF ~IsCancel(in[k]) THEN in[p]
                    ELSE IF p = k THEN in[p]
                    ELSE IF p = 1 /\ k = 3 THEN in[p]
                    ELSE ""
    IN  [f \in DOMAIN bus |->
            IF f = "seats" THEN bus.seats
            ELSE value(CHOOSE p \in 1..6 : name(p) = f)]

install(bus, in) ==
    LET b1 == [bus EXCEPT !.busNumber = in[1]] IN
    IF IsCancel(b1.busNumber) THEN [b1 EXCEPT !.busNumber = ""]
    ELSE LET b2 == [b1 EXCEPT !.driverName = in[2]] IN
    IF IsCancel(b2.driverName) THEN [b2 EXCEPT !.busNumber = ""]
    ELSE LET b3 == [b2 EXCEPT !.arrivalTime = in[3]] IN
    IF IsCancel(b3.arrivalTime)
    THEN [b3 EXCEPT !.busNumber = "", !.driverName = ""]
    ELSE LET b4 == [b3 EXCEPT !.departureTime = in[4]] IN
    IF IsCancel(b4.departureTime)
    THEN [b4 EXCEPT !.busNumber = "", !.driverName = "", !.arrivalTime = ""]
    ELSE LET b5 == [b4 EXCEPT !.from = in[5]] IN
    IF IsCancel(b5.from)
    THEN [b5 EXCEPT !.busNumber = "", !.driverName = "", !.arrivalTime = "",
                    !.departureTime = ""]
    ELSE LET b6 == [b5 EXCEPT !.to = in[6]] IN
    IF IsCancel(b6.to)
    THEN [b6 EXCEPT !.busNumber = "", !.driverName = "", !.arrivalTime = "",
                    !.departureTime = "", !.from = ""]
    ELSE b6

\* The domain of each of the six prompts, in prompt order.
FieldDomain(k) ==
    CASE k = 1 -> BusNumbers
      [] k = 2 -> DriverNames
      [] k = 3 -> ArrivalTimes
      [] k = 4 -> DepartTimes
      [] k = 5 -> Origins
      [] k = 6 -> Dests

\* Every sequence of lines install can consume: good lines up to a first
\* cancelling line, or six good lines.
InstallInputs ==
    UNION {
        {in \in [1..k -> BusNumbers \cup DriverNames \cup ArrivalTimes
                         \cup DepartTimes \cup Origins \cup Dests
                         \cup CancelLines] :
            /\ \A p \in 1..(k - 1) : in[p] \in FieldDomain(p)
            /\ \/ in[k] \in CancelLines
               \/ k = 6 /\ in[k] \in FieldDomain(k)}
        : k \in 1..6}

(***************************************************************************)
(* std::find_if over busList by bus number: the position of the first bus  *)
(* whose number equals `number`, or End(list) when there is none.          *)
(***************************************************************************)
End(list) == Len(list) + 1

RECURSIVE FindFrom(_, _, _)
FindFrom(list, number, i) ==
    IF i > Len(list) THEN End(list)
    ELSE IF getBusNumber(list[i]) = number THEN i
    ELSE FindFrom(list, number, i + 1)

\* A lookup that keeps scanning and ends on the last bus with the number.
find_if_last(list, number) ==
    LET hits == {i \in 1..Len(list) : getBusNumber(list[i]) = number} IN
    IF hits = {} THEN End(list)
    ELSE CHOOSE i \in hits : \A k \in hits : k <= i
find_if(list, number) == FindFrom(list, number, 1)

(***************************************************************************)
(* Seat numbering: seat N is seats[(N-1)/4][(N-1)%4].  The code computes   *)
(* these only after the range check, so the operands are never negative    *)
(* and C++ truncating division agrees with \div and %.                    *)
(***************************************************************************)
SeatRow(seatNumber) == (seatNumber - 1) \div Cols
SeatCol(seatNumber) == (seatNumber - 1) % Cols

\* The seat handlers without their `seatNumber == 0` test.
SeatCancelled_dropped(seatNumber) == FALSE
SeatCancelled(seatNumber) == seatNumber = 0
SeatOutOfRange(seatNumber) == seatNumber < 1 \/ seatNumber > NumSeats

\* The three places the handlers test or assign a seat's passengerName.
\* allotment without its "already reserved" test.
IsBooked_unchecked(seat) == FALSE
IsBooked(seat) == seat.passengerName # "Empty"
Book(seat, passenger) == [seat EXCEPT !.passengerName = passenger]
\* Releasing with passengerName.clear() instead of assigning "Empty".
Vacate_clears(seat) == [seat EXCEPT !.passengerName = ""]
Vacate(seat) == [seat EXCEPT !.passengerName = "Empty"]

\* What a seat handler hands back: the new busList, the message class, the
\* number of prompts answered, the occupant named in the message, the fare
\* printed, and the grid cells of the found bus it read or wrote.
Ret(list, result, used, who, cost, touched) ==
    [list |-> list, result |-> result, used |-> used, who |-> who,
     cost |-> cost, touched |-> touched]

(***************************************************************************)
(* Bus::allotment                                                          *)
(***************************************************************************)
allotment(list, number, seatTok, passenger) ==
    IF IsCancel(number) THEN Ret(list, "Cancelled", 1, "", 0, {})
    ELSE LET it == find_if(list, number) IN
    IF it = End(list) THEN Ret(list, "NotFound", 1, "", 0, {})
    ELSE IF ~seatTok.ok THEN Ret(list, "InvalidInput", 2, "", 0, {})
    ELSE LET seatNumber == seatTok.val IN
    IF SeatCancelled(seatNumber) THEN Ret(list, "Cancelled", 2, "", 0, {})
    ELSE IF SeatOutOfRange(seatNumber)
    THEN Ret(list, "InvalidSeat", 2, "", 0, {})
    ELSE LET row == SeatRow(seatNumber)
             col == SeatCol(seatNumber)
             cell == {<<row, col>>}
         IN
    IF IsBooked(list[it].seats[row][col])
    THEN Ret(list, "AlreadyReserved", 2,
             list[it].seats[row][col].passengerName, 0, cell)
    ELSE IF IsCancel(passenger) THEN Ret(list, "Cancelled", 3, "", 0, cell)
    ELSE LET booked ==
                 [list EXCEPT ![it].seats[row][col] = Book(@, passenger)]
         IN  Ret(booked, "Reserved", 3, passenger,
                 booked[it].seats[row][col].fare, cell)

\* The first character of the answer, as `std::cin >> confirm` extracts it.
ConfirmChar(line) == Head(line)

\* The confirmation compared without lower-casing it.
tolower_identity(ch) == ch
tolower(ch) == IF ch = "Y" THEN "y" ELSE IF ch = "N" THEN "n" ELSE ch

(***************************************************************************)
(* Bus::cancelSeat                                                         *)
(***************************************************************************)
cancelSeat(list, number, seatTok, confirmLine) ==
    IF IsCancel(number) THEN Ret(list, "Cancelled", 1, "", 0, {})
    ELSE LET it == find_if(list, number) IN
    IF it = End(list) THEN Ret(list, "NotFound", 1, "", 0, {})
    ELSE IF ~seatTok.ok THEN Ret(list, "InvalidInput", 2, "", 0, {})
    ELSE LET seatNumber == seatTok.val IN
    IF SeatCancelled(seatNumber) THEN Ret(list, "Cancelled", 2, "", 0, {})
    ELSE IF SeatOutOfRange(seatNumber)
    THEN Ret(list, "InvalidSeat", 2, "", 0, {})
    ELSE LET row == SeatRow(seatNumber)
             col == SeatCol(seatNumber)
             cell == {<<row, col>>}
             who == list[it].seats[row][col].passengerName
         IN
    IF who = "Empty" THEN Ret(list, "AlreadyEmpty", 2, "", 0, cell)
    ELSE IF tolower(ConfirmChar(confirmLine)) # "y"
    THEN Ret(list, "Aborted", 3, who, 0, cell)
    ELSE Ret([list EXCEPT ![it].seats[row][col] = Vacate(@)],
             "Released", 3, who, 0, cell)

(***************************************************************************)
(* Bus::show: the header fields, one line per seat in row-major order      *)
(* (seatIndex runs 1..32 while i, j run over the grid), and the count of   *)
(* seats printed as Empty.                                                 *)
(***************************************************************************)
show(b) ==
    [busNumber |-> b.busNumber, driverName |-> b.driverName,
     arrivalTime |-> b.arrivalTime, departureTime |-> b.departureTime,
     from |-> b.from, to |-> b.to,
     lines |-> [seatIndex \in 1..(Rows * Cols) |->
                  LET i == (seatIndex - 1) \div Cols
                      j == (seatIndex - 1) % Cols
                  IN  [text |-> IF b.seats[i][j].passengerName = "Empty"
                                THEN "Empty"
                                ELSE b.seats[i][j].passengerName,
                       fare |-> b.seats[i][j].fare]],
     emptyCount |-> Cardinality({<<i, j>> \in (0..(Rows - 1)) \X (0..(Cols - 1)) :
                                    b.seats[i][j].passengerName = "Empty"})]

\* Bus::printBasicInfo
printBasicInfo(b) ==
    [busNumber |-> b.busNumber, driverName |-> b.driverName,
     arrivalTime |-> b.arrivalTime, departureTime |-> b.departureTime,
     route |-> <<b.from, b.to>>]

\* matchesRoute comparing the origin only.
matchesRoute_originOnly(b, origin, dest) == b.from = origin

\* Bus::matchesRoute
matchesRoute(b, origin, dest) == b.from = origin /\ b.to = dest

(***************************************************************************)
(* showAllBuses: the summaries printed, in list order, skipping a bus      *)
(* whose number is empty.                                                  *)
(***************************************************************************)
RECURSIVE ShowAllFrom(_, _)
ShowAllFrom(list, i) ==
    IF i > Len(list) THEN <<>>
    ELSE IF getBusNumber(list[i]) = "" THEN ShowAllFrom(list, i + 1)
    ELSE <<printBasicInfo(list[i])>> \o ShowAllFrom(list, i + 1)

showAllBuses(list) ==
    IF Len(list) = 0 THEN [result |-> "NoBuses", out |-> <<>>]
    ELSE [result |-> "Listed", out |-> ShowAllFrom(list, 1)]

(***************************************************************************)
(* searchBusesByRoute                                                      *)
(***************************************************************************)
RECURSIVE SearchFrom(_, _, _, _)
SearchFrom(list, origin, destination, i) ==
    IF i > Len(list) THEN <<>>
    ELSE IF matchesRoute(list[i], origin, destination)
    THEN <<printBasicInfo(list[i])>> \o SearchFrom(list, origin, destination, i + 1)
    ELSE SearchFrom(list, origin, destination, i + 1)

searchBusesByRoute(list, origin, destination) ==
    IF Len(list) = 0 THEN [result |-> "NoBuses", used |-> 0, out |-> <<>>]
    ELSE IF IsCancel(origin)
    THEN [result |-> "Cancelled", used |-> 1, out |-> <<>>]
    ELSE IF IsCancel(destination)
    THEN [result |-> "Cancelled", used |-> 2, out |-> <<>>]
    ELSE LET found == SearchFrom(list, origin, destination, 1)
             foundAny == Len(found) > 0
         IN  [result |-> IF foundAny THEN "Found" ELSE "NoMatch",
              used |-> 2, out |-> found]

\* Storing the new bus at the front of the list.
push_back_front(list, b) == <<b>> \o list

\* busList.push_back
push_back(list, b) == Append(list, b)

NoOut == <<>>

Op(name, reads, result, out) ==
    [op |-> name, in |-> reads, result |-> result, out |-> out]

NoTrip == [on |-> FALSE, base |-> <<>>]

(***************************************************************************)
(* main, case 1: install a new bus and store it when its number is set.    *)
(***************************************************************************)
MenuInstall ==
    \E in \in InstallInputs :
        LET newBus == install(Bus, in)
            stored == getBusNumber(newBus) # ""
        IN  /\ stored => Len(busList) < MaxBuses
            /\ busList' = IF stored THEN push_back(busList, newBus) ELSE busList
            /\ prev' = busList
            /\ last' = Op("install", in,
                          IF stored THEN "Installed" ELSE "Cancelled", NoOut)
            /\ trip' = NoTrip

\* A prompt the handler returned before reaching consumes no input: of the
\* inputs that differ only there, one representative is kept.
Reached(used, seatTok, third, blank) ==
    /\ used < 2 => seatTok = BadInt
    /\ used < 3 => third = blank

\* The inputs a seat handler consumed: prompts it never reached are blank.
NotRead == [ok |-> FALSE, val |-> 0]

SeatIn(number, seatTok, third, used) ==
    [number |-> number,
     seat |-> IF used >= 2 THEN seatTok ELSE NotRead,
     third |-> IF used >= 3 THEN third ELSE <<>>]

SeatOut(r) == [used |-> r.used, who |-> r.who, cost |-> r.cost,
               touched |-> r.touched]

(***************************************************************************)
(* main, case 2: reserve a seat.                                           *)
(***************************************************************************)
MenuReserve ==
    IF Len(busList) = 0
    THEN /\ busList' = busList
         /\ prev' = busList
         /\ last' = Op("allotment", <<>>, "NoBuses", NoOut)
         /\ trip' = NoTrip
    ELSE \E number \in BusNumbers \cup CancelLines, seatTok \in SeatTokens,
            passenger \in Passengers \cup CancelLines :
            LET r == allotment(busList, number, seatTok, passenger) IN
            /\ Reached(r.used, seatTok, <<passenger>>, <<"">>)
            /\ busList' = r.list
            /\ prev' = busList
            /\ last' = Op("allotment",
                          SeatIn(number, seatTok, <<passenger>>, r.used),
                          r.result, SeatOut(r))
            /\ trip' = NoTrip

(***************************************************************************)
(* main, case 3: show the details of one bus.                              *)
(***************************************************************************)
MenuShow ==
    /\ prev' = busList
    /\ trip' = NoTrip
    /\ busList' = busList
    /\ IF Len(busList) = 0
       THEN last' = Op("show", <<>>, "NoBuses", NoOut)
       ELSE \E number \in BusNumbers \cup CancelLines :
                IF IsCancel(number)
                THEN last' = Op("show", <<number>>, "Cancelled", NoOut)
                ELSE LET it == find_if(busList, number) IN
                     IF it = End(busList)
                     THEN last' = Op("show", <<number>>, "NotFound", NoOut)
                     ELSE last' = Op("show", <<number>>, "Shown",
                                     show(busList[it]))

(***************************************************************************)
(* main, case 4: list all buses.                                           *)
(***************************************************************************)
MenuShowAll ==
    LET r == showAllBuses(busList) IN
    /\ busList' = busList
    /\ prev' = busList
    /\ last' = Op("showAll", <<>>, r.result, r.out)
    /\ trip' = NoTrip

\* A release that directly follows a successful reserve of the same bus
\* number and seat, and is not declined at the (y/n) prompt, closes a round
\* trip; base is busList as it was before that reserve.
ClosesTrip(number, seatTok, r) ==
    /\ last.op = "allotment"
    /\ last.result = "Reserved"
    /\ last.in.number = number
    /\ r.used >= 2
    /\ last.in.seat = seatTok
    /\ r.result # "Aborted"

(***************************************************************************)
(* main, case 5: cancel (release) a seat.                                  *)
(***************************************************************************)
MenuCancel ==
    IF Len(busList) = 0
    THEN /\ busList' = busList
         /\ prev' = busList
         /\ last' = Op("cancelSeat", <<>>, "NoBuses", NoOut)
         /\ trip' = NoTrip
    ELSE \E number \in BusNumbers \cup CancelLines, seatTok \in SeatTokens,
            confirmLine \in ConfirmLines :
            LET r == cancelSeat(busList, number, seatTok, confirmLine) IN
            /\ Reached(r.used, seatTok, confirmLine, <<"n">>)
            /\ busList' = r.list
            /\ prev' = busList
            /\ last' = Op("cancelSeat",
                          SeatIn(number, seatTok, confirmLine, r.used),
                          r.result, SeatOut(r))
            /\ trip' = IF ClosesTrip(number, seatTok, r)
                       THEN [on |-> TRUE, base |-> prev]
                       ELSE NoTrip

(***************************************************************************)
(* main, case 6: search buses by route.                                    *)
(***************************************************************************)
MenuSearch ==
    \E origin \in Origins \cup CancelLines,
       destination \in SearchDests \cup CancelLines :
        LET r == searchBusesByRoute(busList, origin, destination) IN
        /\ r.used < 1 => origin = ""
        /\ r.used < 2 => destination = ""
        /\ busList' = busList
        /\ prev' = busList
        /\ last' = Op("search",
                      IF r.used = 0 THEN <<>>
                      ELSE IF r.used = 1 THEN <<origin>>
                      ELSE <<origin, destination>>,
                      r.result, r.out)
        /\ trip' = NoTrip

Init ==
    /\ busList = <<>>
    /\ prev = <<>>
    /\ last = Op("start", <<>>, "None", NoOut)
    /\ trip = NoTrip

Next ==
    \/ MenuInstall
    \/ MenuReserve
    \/ MenuShow
    \/ MenuShowAll
    \/ MenuCancel
    \/ MenuSearch

Spec == Init /\ [][Next]_vars

(***************************************************************************)
(* Vocabulary of the properties.  All of them speak of the last menu       *)
(* operation: its inputs (last.in), busList before it (prev) and after it  *)
(* (busList), and what it printed (last.result, last.out).                 *)
(***************************************************************************)
Grid == (0..(Rows - 1)) \X (0..(Cols - 1))
ValidSeats == 1..32

\* The last operation was a reserve or a release that got to its prompts.
SeatOp(name) == last.op = name /\ last.result # "NoBuses"

\* The positions of the buses of a list that carry a bus number.
Holders(list, number) == {i \in 1..Len(list) : list[i].busNumber = number}

\* The bus number typed resolves to a bus of the registry.
Resolves == Holders(prev, last.in.number) # {}

\* The first bus in registration order that carries the number typed.
Target == CHOOSE i \in Holders(prev, last.in.number) :
              \A k \in Holders(prev, last.in.number) : i <= k

\* The seat number typed, and the cell of the grid it names.
SeatNo == last.in.seat.val
CellOf(n) == <<(n - 1) \div 4, (n - 1) % 4>>
NameAt(list, i, n) == list[i].seats[CellOf(n)[1]][CellOf(n)[2]].passengerName
FareAt(list, i, n) == list[i].seats[CellOf(n)[1]][CellOf(n)[2]].fare

\* The number of vacant seats describe() reports for a bus.
VacantCount(list, i) == show(list[i]).emptyCount

\* An operation on an existing vehicle and a seat number in 1..32.
OnSeat(name) ==
    /\ SeatOp(name)
    /\ Resolves
    /\ last.in.seat.ok
    /\ SeatNo \in ValidSeats

\* The six descriptive fields of a bus.
Fields(b) == <<b.busNumber, b.driverName, b.arrivalTime, b.departureTime,
               b.from, b.to>>

(***************************************************************************)
(* C1.  Reserving a vacant seat N in 1..32 of an existing vehicle under a  *)
(* name that is neither empty nor "0" succeeds; afterwards describe()      *)
(* shows seat N occupied by that name, the vehicle's vacant-seat count is  *)
(* one less than before, and a further reserve of the seat fails with      *)
(* AlreadyReserved.                                                        *)
(***************************************************************************)
C1_ReserveOccupiesSeat ==
    (/\ OnSeat("allotment")
     /\ NameAt(prev, Target, SeatNo) = "Empty"
     /\ last.in.third # <<>>
     /\ ~IsCancel(last.in.third[1]))
    => /\ last.result = "Reserved"
       /\ show(busList[Target]).lines[SeatNo].text = last.in.third[1]
       /\ NameAt(busList, Target, SeatNo) # "Empty"
       /\ VacantCount(busList, Target) = VacantCount(prev, Target) - 1
       /\ \A p \in Passengers \cup CancelLines :
            allotment(busList, last.in.number, last.in.seat, p).result
                = "AlreadyReserved"

(***************************************************************************)
(* C2.  No two vehicles stored in the registry have the same identifier.   *)
(***************************************************************************)
C2_UniqueIdentifiers ==
    \A i, j \in 1..Len(busList) :
        i # j => busList[i].busNumber # busList[j].busNumber

(***************************************************************************)
(* C3.  A registration attempt in which one of the fields supplied is      *)
(* empty or "0" leaves the registry exactly as it was, whichever field     *)
(* cancels.                                                                *)
(***************************************************************************)
C3_RegistrationAtomic ==
    (/\ last.op = "install"
     /\ \E k \in DOMAIN last.in : last.in[k] = "" \/ last.in[k] = "0")
    => busList = prev

C3_Witness ==
    /\ last.op = "install"
    /\ Len(last.in) = 6
    /\ last.in[6] = "0"
    /\ Len(prev) > 0
    /\ busList = prev

(***************************************************************************)
(* C4.  Reserving a seat N in 1..32 of an existing vehicle whose occupant  *)
(* is set fails with AlreadyReserved naming the current occupant and       *)
(* leaves the registry unchanged; the passenger name is not asked for and  *)
(* has no influence on the outcome.                                        *)
(***************************************************************************)
C4_OccupiedSeatRefused ==
    (/\ OnSeat("allotment")
     /\ NameAt(prev, Target, SeatNo) # "Empty")
    => /\ last.result = "AlreadyReserved"
       /\ last.out.who = NameAt(prev, Target, SeatNo)
       /\ busList = prev
       /\ last.in.third = <<>>
       /\ \A p \in Passengers \cup CancelLines :
            LET r == allotment(prev, last.in.number, last.in.seat, p) IN
            /\ r.result = "AlreadyReserved"
            /\ r.list = prev
            /\ r.used = 2

C4_Witness ==
    /\ OnSeat("allotment")
    /\ last.result = "AlreadyReserved"
    /\ last.out.who = "Alice"
    /\ NameAt(busList, Target, SeatNo) = "Alice"

(***************************************************************************)
(* C5.  A successful reserve of a vacant seat directly followed by a       *)
(* release of the same seat of the same vehicle, answered affirmatively,   *)
(* gives back the registry as it was before the reserve.                   *)
(***************************************************************************)
C5_ReserveReleaseRoundTrip ==
    trip.on => busList = trip.base

C5_Witness ==
    /\ trip.on
    /\ last.result = "Released"
    /\ NameAt(prev, Target, SeatNo) = "Alice"
    /\ NameAt(busList, Target, SeatNo) = "Empty"
    /\ FareAt(busList, Target, SeatNo) = 300

(***************************************************************************)
(* C6.  A successful reserve or a confirmed release changes the occupant   *)
(* of exactly one seat of exactly one vehicle; every other seat, every     *)
(* fare, the six descriptive fields of every vehicle and the length and    *)
(* order of the registry stay as they were.                                *)
(***************************************************************************)
ChangedSeats ==
    {<<i, cell>> \in (1..Len(prev)) \X Grid :
        busList[i].seats[cell[1]][cell[2]].passengerName
            # prev[i].seats[cell[1]][cell[2]].passengerName}

C6_ExactlyOneSeatChanges ==
    (\/ SeatOp("allotment") /\ last.result = "Reserved"
     \/ SeatOp("cancelSeat") /\ last.result = "Released")
    => /\ Len(busList) = Len(prev)
       /\ Cardinality(ChangedSeats) = 1
       /\ \A i \in 1..Len(prev) :
            /\ Fields(busList[i]) = Fields(prev[i])
            /\ \A cell \in Grid :
                 busList[i].seats[cell[1]][cell[2]].fare
                     = prev[i].seats[cell[1]][cell[2]].fare

(***************************************************************************)
(* C7.  On an existing vehicle, reserve and release with a seat number     *)
(* outside 1..32 other than 0 fail with InvalidSeat, and with seat number  *)
(* 0 they are reported Cancelled; in both cases the registry is unchanged. *)
(* No cell outside the 8x4 grid is read or written by either operation.    *)
(***************************************************************************)
C7_SeatNumberChecked ==
    \A name \in {"allotment", "cancelSeat"} :
        SeatOp(name) =>
            /\ last.out.touched \subseteq Grid
            /\ (Resolves /\ last.in.seat.ok /\ SeatNo \notin ValidSeats) =>
                   /\ busList = prev
                   /\ last.out.touched = {}
                   /\ last.result =
                          IF SeatNo = 0 THEN "Cancelled" ELSE "InvalidSeat"

C7_Witness ==
    /\ SeatOp("cancelSeat")
    /\ Resolves
    /\ last.in.seat.ok
    /\ SeatNo = 0
    /\ last.result = "Cancelled"
    /\ \E i \in 1..Len(busList) : NameAt(busList, i, 32) = "Alice"

(***************************************************************************)
(* C8.  A release on an existing vehicle and a seat N in 1..32 vacates the *)
(* seat if and only if the seat was occupied and the answer at the         *)
(* confirmation prompt starts with 'y' or 'Y'.  A vacant seat gives        *)
(* AlreadyEmpty without the confirmation being asked; any other answer     *)
(* gives Aborted; in both cases the registry is unchanged.                 *)
(***************************************************************************)
Affirmative(line) == line # <<>> /\ line[1] \in {"y", "Y"}

C8_ReleaseNeedsConfirmation ==
    OnSeat("cancelSeat") =>
        LET was == NameAt(prev, Target, SeatNo)
            vacated == was # "Empty" /\ NameAt(busList, Target, SeatNo) = "Empty"
        IN  /\ vacated <=> (was # "Empty" /\ Affirmative(last.in.third))
            /\ vacated <=> last.result = "Released"
            /\ was = "Empty" =>
                   /\ last.result = "AlreadyEmpty"
                   /\ last.in.third = <<>>
                   /\ busList = prev
            /\ (was # "Empty" /\ ~Affirmative(last.in.third)) =>
                   /\ last.result = "Aborted"
                   /\ last.in.third # <<>>
                   /\ busList = prev

C8_Witness ==
    /\ OnSeat("cancelSeat")
    /\ last.in.third = <<"Y">>
    /\ last.result = "Released"
    /\ NameAt(prev, Target, SeatNo) = "Alice"
    /\ NameAt(busList, Target, SeatNo) = "Empty"

(***************************************************************************)
(* C9.  A search by a route (o, d) of non-empty, non-"0" strings lists     *)
(* exactly the registered vehicles whose origin is o and destination is d  *)
(* under exact string equality, each once, in registration order.  It      *)
(* signals "no matching buses" exactly when the registry is non-empty and  *)
(* nothing matches, and "no buses available" exactly when the registry is  *)
(* empty.  The registry is never changed.                                  *)
(***************************************************************************)
RouteMatches(o, d) ==
    {i \in 1..Len(prev) : prev[i].from = o /\ prev[i].to = d}

\* out lists the buses at the positions in hits, once each, in increasing
\* order of position.
ListsInOrder(out, hits) ==
    /\ Len(out) = Cardinality(hits)
    /\ \E pos \in [1..Len(out) -> hits] :
        /\ \A a, b \in 1..Len(out) : a < b => pos[a] < pos[b]
        /\ \A a \in 1..Len(out) :
            /\ out[a].busNumber = prev[pos[a]].busNumber
            /\ out[a].driverName = prev[pos[a]].driverName
            /\ out[a].arrivalTime = prev[pos[a]].arrivalTime
            /\ out[a].departureTime = prev[pos[a]].departureTime
            /\ out[a].route = <<prev[pos[a]].from, prev[pos[a]].to>>

C9_SearchByRouteExact ==
    last.op = "search" =>
        /\ busList = prev
        /\ last.result = "NoBuses" <=> Len(prev) = 0
        /\ (Len(last.in) = 2 /\ last.in[2] \notin {"", "0"}) =>
            /\ ListsInOrder(last.out, RouteMatches(last.in[1], last.in[2]))
            /\ last.result = "NoMatch" <=>
                   (Len(prev) > 0 /\ RouteMatches(last.in[1], last.in[2]) = {})

C9_Witness ==
    /\ last.op = "search"
    /\ last.result = "Found"
    /\ last.in = <<"delhi", "Agra">>
    /\ Len(busList) = 2
    /\ busList[1].from = "Delhi"
    /\ busList[2].from = "delhi"
    /\ Len(last.out) = 1
    /\ last.out[1].busNumber = busList[2].busNumber

(***************************************************************************)
(* C10.  The registry is append-only: after every operation the vehicles   *)
(* that were registered before it, compared by their six fields, are a     *)
(* prefix of the registry.  It grows only by a registration whose six      *)
(* fields are all non-empty and not "0", by exactly one vehicle put at the *)
(* end, carrying the fields supplied and 32 vacant seats.                  *)
(***************************************************************************)
C10_RegistryAppendOnly ==
    /\ Len(prev) <= Len(busList)
    /\ \A i \in 1..Len(prev) : Fields(busList[i]) = Fields(prev[i])
    /\ Len(busList) # Len(prev) =>
        /\ last.op = "install"
        /\ Len(busList) = Len(prev) + 1
        /\ Len(last.in) = 6
        /\ \A k \in 1..6 : last.in[k] # "" /\ last.in[k] # "0"
        /\ Fields(busList[Len(busList)]) = last.in
        /\ DOMAIN busList[Len(busList)].seats = 0..7
        /\ \A i \in 0..7 :
            /\ DOMAIN busList[Len(busList)].seats[i] = 0..3
            /\ \A j \in 0..3 :
                 busList[Len(busList)].seats[i][j].passengerName = "Empty"
        /\ VacantCount(busList, Len(busList)) = 32

C10_Witness ==
    /\ last.op = "install"
    /\ last.result = "Installed"
    /\ Len(busList) = 2
    /\ NameAt(busList, 1, 5) = "Alice"
    /\ Fields(busList[2]) = last.in
    /\ VacantCount(busList, 2) = 32

(***************************************************************************)
(* C11.  Every vehicle in the registry has exactly 32 seats, 8 rows of 4,  *)
(* and every seat has fare 300: no reserve, release, registration or query *)
(* changes a fare, and the fare a successful reserve reports is 300.       *)
(***************************************************************************)
C11_SeatsAndFaresFixed ==
    /\ \A i \in 1..Len(busList) :
        /\ DOMAIN busList[i].seats = 0..7
        /\ \A r \in 0..7 :
            /\ DOMAIN busList[i].seats[r] = 0..3
            /\ \A c \in 0..3 : busList[i].seats[r][c].fare = 300
        /\ Cardinality(UNION {{<<r, c>> : c \in DOMAIN busList[i].seats[r]} :
                                  r \in DOMAIN busList[i].seats}) = 32
    /\ (SeatOp("allotment") /\ last.result = "Reserved") => last.out.cost = 300
    /\ (last.op = "show" /\ last.result = "Shown") =>
        /\ DOMAIN last.out.lines = 1..32
        /\ \A n \in 1..32 : last.out.lines[n].fare = 300

C11_Witness ==
    /\ SeatOp("allotment")
    /\ last.result = "Reserved"
    /\ last.out.cost = 300
    /\ Len(busList) = 2
    /\ NameAt(busList, 1, 5) = "Alice"
    /\ NameAt(busList, 1, 32) = "Alice"
    /\ FareAt(busList, 1, 5) = 300
    /\ FareAt(busList, 2, 32) = 300

(***************************************************************************)
(* C12.  Reserve, release and describe resolve the bus number typed to the *)
(* first vehicle in registration order that carries it.  When no           *)
(* registered vehicle carries it the operation fails with NotFound and     *)
(* the registry is unchanged, and this is decided before the seat number   *)
(* is asked for: an unknown number gives NotFound whatever the seat.       *)
(***************************************************************************)
\* The last operation asked for a bus number and got one that is not a
\* cancelling line.
NumberTyped ==
    /\ last.op \in {"allotment", "cancelSeat", "show"}
    /\ last.result # "NoBuses"
    /\ LET number == IF last.op = "show" THEN last.in[1] ELSE last.in.number
       IN  number # "" /\ number # "0"

TypedNumber == IF last.op = "show" THEN last.in[1] ELSE last.in.number

FirstHolder ==
    CHOOSE i \in Holders(prev, TypedNumber) :
        \A k \in Holders(prev, TypedNumber) : i <= k

C12_FirstMatchOrNotFound ==
    /\ NumberTyped =>
        IF Holders(prev, TypedNumber) = {}
        THEN /\ last.result = "NotFound"
             /\ busList = prev
             /\ last.op # "show" =>
                 /\ last.in.seat = NotRead
                 /\ last.in.third = <<>>
                 /\ \A tok \in SeatTokens :
                     /\ \A p \in Passengers \cup CancelLines :
                          allotment(prev, TypedNumber, tok, p).result = "NotFound"
                     /\ \A c \in ConfirmLines :
                          cancelSeat(prev, TypedNumber, tok, c).result = "NotFound"
        ELSE /\ last.result # "NotFound"
             /\ last.op = "show" =>
                 /\ last.result = "Shown"
                 /\ last.out = show(prev[FirstHolder])
                 /\ busList = prev
             /\ last.op # "show" =>
                 /\ ChangedSeats \subseteq ({FirstHolder} \X Grid)
                 /\ (last.in.seat.ok /\ SeatNo \in ValidSeats) =>
                     /\ last.out.touched = {CellOf(SeatNo)}
                     /\ last.op = "allotment" =>
                         (last.result = "AlreadyReserved"
                             <=> NameAt(prev, FirstHolder, SeatNo) # "Empty")
                     /\ last.op = "cancelSeat" =>
                         (last.result = "AlreadyEmpty"
                             <=> NameAt(prev, FirstHolder, SeatNo) = "Empty")
    /\ \A number \in BusNumbers, tok \in SeatTokens :
        /\ allotment(<<>>, number, tok, "Alice").result = "NotFound"
        /\ cancelSeat(<<>>, number, tok, <<"y">>).result = "NotFound"

C12_Witness ==
    /\ SeatOp("allotment")
    /\ last.result = "AlreadyReserved"
    /\ Len(prev) = 2
    /\ prev[1].busNumber = prev[2].busNumber
    /\ last.in.number = prev[1].busNumber
    /\ NameAt(prev, 1, SeatNo) = "Alice"
    /\ NameAt(prev, 2, SeatNo) = "Empty"

(***************************************************************************)
(* C13.  Every vehicle stored in the registry has all six fields           *)
(* non-empty and different from "0".  Hence no stored vehicle carries a    *)
(* number that the identifier prompts treat as a cancellation, and the     *)
(* listing of all buses skips none of them.                                *)
(***************************************************************************)
C13_StoredFieldsValid ==
    /\ \A i \in 1..Len(busList) :
        /\ \A k \in 1..6 : Fields(busList[i])[k] # "" /\ Fields(busList[i])[k] # "0"
        /\ \E seatTok \in SeatTokens :
             allotment(busList, busList[i].busNumber, seatTok, "").result
                 \notin {"Cancelled", "NotFound"}
    /\ last.op = "showAll" =>
        /\ Len(last.out) = Len(prev)
        /\ \A i \in 1..Len(prev) : last.out[i].busNumber = prev[i].busNumber
        /\ last.result = "NoBuses" <=> Len(prev) = 0

C13_Witness ==
    /\ last.op = "showAll"
    /\ last.result = "Listed"
    /\ Len(busList) = 2
    /\ Len(last.out) = 2
    /\ last.out[1].busNumber # last.out[2].busNumber

====
